---------------------------- MODULE Spec2Model ----------------------------
(***************************************************************************)
(* Model of the SRC roughness calibration of inundation-mapping:          *)
(*   src/src/src_roughness_optimization.py                                 *)
(*     branch_network       - the Network Builder                          *)
(*     group_manningn_calc  - the Group Roughness Propagator               *)
(*     update_rating_curve  - the Calibration Merger                       *)
(*                                                                         *)
(* A pandas column is a function from HydroID to a value; a NaN cell is a  *)
(* HydroID outside the function's DOMAIN, and a column that was never      *)
(* assigned is the empty function.  Real numbers are exact rationals       *)
(* <<numerator, denominator>>.                                             *)
(***************************************************************************)
EXTENDS Integers, Sequences, FiniteSets, TLC

VARIABLES
    pc,         \* position in the program
    segs,       \* the segment table: one row per HydroID, in file order
    bn,         \* the local state of branch_network
    df,         \* the per-HydroID frame branch_network returns (df_nmerge)
    mann,       \* df_mann_hydroid: the direct roughness value per HydroID
    gm,         \* the local state of group_manningn_calc
    htable,     \* the hydroTable file of the unit
    original,   \* the hydroTable file as it was before the first call
    catchments, \* src_calibrated of the catchments layer, per HydroID
    pool,       \* the observations that exist for the unit
    run,        \* the last call of update_rating_curve: arguments and result
    mp          \* run_prep and multi_process: the worker pool and the log file

netvars == <<pc, segs, bn, df, mann, gm>>
calvars == <<htable, original, catchments, pool, run, mp>>
vars == <<pc, segs, bn, df, mann, gm, htable, original, catchments, pool, run,
          mp>>

(***************************************************************************)
(* Bounds of the model.                                                    *)
(***************************************************************************)
NSeg == 3           \* number of segments (HydroIDs 1..NSeg) of a table
MaxOrder == 2       \* stream orders are 1..MaxOrder
MaxLen == 2         \* LENGTHKM of a segment is 1..MaxLen
MaxObs == 2         \* number of observations that exist for a unit
MaxRuns == 2        \* number of calls of update_rating_curve on a hydroTable
NUnits == 5         \* length of procs_list: the units of work of one run
MaxJobs == 2        \* number_of_jobs is 1..MaxJobs
NChain == 5         \* number of segments of a single-branch table

HydroIDs == 1..NSeg
\* An id that names no row of the table (a dangling NextDownID, a sink).
OutsideID == NSeg + 1
Orders == 1..MaxOrder

(***************************************************************************)
(* Program constants.                                                      *)
(***************************************************************************)
NON_LAKE == -999    \* LakeID of a segment that is not a lake
SOME_LAKE == 7      \* any other LakeID: the segment belongs to a lake
STAGE_ZERO_TOL == 1 \* src_stage <= 0.1 m, in decimetres
NODATA == -999      \* no-data value of discharge_cms
DOWNSTREAM_THRESHOLD == 2   \* default of down_dist_thresh, in units of LENGTHKM

\* utils.shared_variables: 0.001 and 0.6
ROUGHNESS_MIN_THRESH == <<1, 1000>>
ROUGHNESS_MAX_THRESH == <<6, 10>>

(***************************************************************************)
(* Generic helpers.                                                        *)
(***************************************************************************)
EmptyCol == [h \in {} |-> 0]

Min(S) == CHOOSE x \in S : \A y \in S : x <= y

RECURSIVE SortedSeq(_)
\* the elements of a set of integers as an ascending sequence
SortedSeq(S) ==
    IF S = {} THEN <<>> ELSE <<Min(S)>> \o SortedSeq(S \ {Min(S)})

Range(s) == {s[i] : i \in 1..Len(s)}

Put(col, h, v) == [x \in (DOMAIN col) \cup {h} |-> IF x = h THEN v ELSE col[x]]

(***************************************************************************)
(* Exact rational arithmetic: <<n, d>> with d > 0 and gcd(n, d) = 1.       *)
(***************************************************************************)
Abs(x) == IF x < 0 THEN 0 - x ELSE x

RECURSIVE GCD(_, _)
GCD(a, b) == IF b = 0 THEN a ELSE GCD(b, a % b)

Rat(n, d) ==
    LET s == IF d < 0 THEN 0 - 1 ELSE 1
        g == GCD(Abs(n), Abs(d))
    IN  <<(s * n) \div g, (s * d) \div g>>

RZero == <<0, 1>>
RInt(k) == <<k, 1>>
RAdd(x, y) == Rat(x[1] * y[2] + y[1] * x[2], x[2] * y[2])
RDiv(x, y) == Rat(x[1] * y[2], x[2] * y[1])
RLess(x, y) == x[1] * y[2] < y[1] * x[2]

(***************************************************************************)
(* branch_network                                                          *)
(***************************************************************************)
\* mutant: the lake rows are not dropped
NonLake_KeepLakes(tbl) == DOMAIN tbl

\* line 293: the rows kept, all others are dropped from the table
NonLake(tbl) == {h \in DOMAIN tbl : tbl[h].LakeID = NON_LAKE}

\* line 294: hydroids that no (kept) row names as its NextDownID
StartCatch(tbl, h) ==
    ~ \E g \in NonLake(tbl) : tbl[g].NextDownID = h

\* line 315: referenced as NextDownID by more than one (kept) row
CheckConfluence(tbl, nextid) ==
    Cardinality({g \in NonLake(tbl) : tbl[g].NextDownID = nextid}) > 1

\* lines 292-299: the state before the first iteration of the outer loop
BNInit(tbl) ==
    [ keep         |-> NonLake(tbl),
      branch_heads |-> SortedSeq({h \in NonLake(tbl) : StartCatch(tbl, h)}),
      Q            |-> <<>>,
      visited      |-> {},
      branch_count |-> 0,
      vert_count   |-> 0,
      route_count  |-> EmptyCol,
      branch_id    |-> EmptyCol ]

\* lines 300-303: pop the next branch head and start a branch
BNPop(b) ==
    [b EXCEPT !.branch_heads = Tail(b.branch_heads),
              !.Q            = <<Head(b.branch_heads)>>,
              !.vert_count   = 0,
              !.branch_count = b.branch_count + 1]

\* mutant: a popped hydroid is processed whether or not it was visited
NotVisited_Always(b, q) == TRUE

\* line 306
NotVisited(b, q) == q \notin b.visited

\* line 314
FollowNext(b, nextid) == nextid \notin b.visited /\ nextid \in b.keep

\* mutant: the branch is split at every increase of the stream order
SplitHere_OrderOnly(tbl, q, nextid) == tbl[nextid].order_ > tbl[q].order_

\* mutant: the branch is split at every confluence
SplitHere_ConfluenceOnly(tbl, q, nextid) == CheckConfluence(tbl, nextid)

\* line 317
SplitHere(tbl, q, nextid) ==
    tbl[nextid].order_ > tbl[q].order_ /\ CheckConfluence(tbl, nextid)

\* mutant: at a split the successor is not appended to branch_heads
BNVisit_DropsHead(tbl, b) ==
    LET q    == Head(b.Q)
        rest == Tail(b.Q)
    IN  IF ~ NotVisited(b, q)
        THEN [b EXCEPT !.Q = rest]
        ELSE LET nextid == tbl[q].NextDownID
                 b1 == [b EXCEPT !.Q = rest,
                                 !.route_count = Put(b.route_count, q, b.vert_count),
                                 !.branch_id   = Put(b.branch_id, q, b.branch_count),
                                 !.vert_count  = b.vert_count + 1,
                                 !.visited     = b.visited \cup {q}]
             IN  IF FollowNext(b1, nextid) /\ ~ SplitHere(tbl, q, nextid)
                 THEN [b1 EXCEPT !.Q = Append(b1.Q, nextid)]
                 ELSE b1

\* lines 305-320: one iteration of the inner loop
BNVisit(tbl, b) ==
    LET q    == Head(b.Q)
        rest == Tail(b.Q)
    IN  IF ~ NotVisited(b, q)
        THEN [b EXCEPT !.Q = rest]
        ELSE LET nextid == tbl[q].NextDownID
                 b1 == [b EXCEPT !.Q = rest,
                                 !.route_count = Put(b.route_count, q, b.vert_count),
                                 !.branch_id   = Put(b.branch_id, q, b.branch_count),
                                 !.vert_count  = b.vert_count + 1,
                                 !.visited     = b.visited \cup {q}]
             IN  IF FollowNext(b1, nextid)
                 THEN IF SplitHere(tbl, q, nextid)
                      THEN [b1 EXCEPT !.branch_heads = Append(b1.branch_heads, nextid)]
                      ELSE [b1 EXCEPT !.Q = Append(b1.Q, nextid)]
                 ELSE b1

BNLoopDone(b) == b.Q = <<>> /\ b.branch_heads = <<>>

\* lines 300-320: one step of the nested loops
BNStep(tbl, b) == IF b.Q # <<>> THEN BNVisit(tbl, b) ELSE BNPop(b)

RECURSIVE BNRun(_, _)
BNRun(tbl, b) == IF BNLoopDone(b) THEN b ELSE BNRun(tbl, BNStep(tbl, b))

\* mutant: the frame is sorted by branch_id only, ties in file order
SortsBefore_BranchOnly(b, h, g) ==
    \/ b.branch_id[h] < b.branch_id[g]
    \/ b.branch_id[h] = b.branch_id[g] /\ h < g

\* line 322: the sort key (branch_id, route_count), ascending
SortsBefore(b, h, g) ==
    \/ b.branch_id[h] < b.branch_id[g]
    \/ /\ b.branch_id[h] = b.branch_id[g]
       /\ \/ b.route_count[h] < b.route_count[g]
          \/ b.route_count[h] = b.route_count[g] /\ h < g

RECURSIVE SortRows(_, _)
SortRows(b, S) ==
    IF S = {} THEN <<>>
    ELSE LET m == CHOOSE h \in S : \A g \in S \ {h} : SortsBefore(b, h, g)
         IN  <<m>> \o SortRows(b, S \ {m})

\* line 322: rows with a key first, rows whose key is NaN last, in file order
BNSort(b) ==
    SortRows(b, DOMAIN b.branch_id) \o SortedSeq(b.keep \ DOMAIN b.branch_id)

\* line 322 raises KeyError when no row was ever assigned: the columns
\* branch_id and route_count were never created
BNHasColumns(b) == DOMAIN b.branch_id # {}

\* lines 321-323: the frame branch_network returns
BNResult(b) ==
    [ rows        |-> BNSort(b),
      branch_id   |-> b.branch_id,
      route_count |-> b.route_count ]

NoFrame == [rows |-> <<>>, branch_id |-> EmptyCol, route_count |-> EmptyCol]

(***************************************************************************)
(* group_manningn_calc                                                     *)
(***************************************************************************)
\* lines 328-330: the counters before the first row; i is the row of the loop
GMInit ==
    [ i                |-> 1,
      dist_accum       |-> 0,
      hyid_count       |-> 0,
      hyid_accum_count |-> 0,
      run_accum_mann   |-> RZero,
      group_ManningN   |-> RZero,
      branch_start     |-> 1,
      out              |-> EmptyCol ]

\* line 332: int(NaN) raises ValueError for a row that has no branch_id
GMRowRaises(frame, g) == frame.rows[g.i] \notin DOMAIN frame.branch_id

\* mutant: the counters are carried from one branch to the next
GMBranchReset_Never(g, branch) == g

\* lines 332-335: the counters are reset at the first row of a new branch
GMBranchReset(g, branch) ==
    IF branch # g.branch_start
    THEN [g EXCEPT !.dist_accum = 0, !.hyid_count = 0, !.hyid_accum_count = 0,
                   !.run_accum_mann = RZero, !.group_ManningN = RZero,
                   !.branch_start = branch]
    ELSE g

\* mutant: the distance test is <= instead of <
GMApplies_AtThreshold(g, thresh) == g.dist_accum <= thresh /\ g.hyid_accum_count > 1

\* mutant: one contributing hydroid is enough
GMApplies_OneContributor(g, thresh) == g.dist_accum < thresh /\ g.hyid_accum_count > 0

\* lines 354-355: a non-calibrated row takes the group value
GMApplies(g, thresh) == g.dist_accum < thresh /\ g.hyid_accum_count > 1

\* mutant: the distance is that of the row alone, nothing is accumulated
GMUncalibrated_NoAccum(g, h, len, thresh) ==
    LET g1 == [g EXCEPT !.dist_accum = len, !.hyid_count = 0]
    IN  IF GMApplies(g1, thresh)
        THEN [g1 EXCEPT !.out = Put(g1.out, h, g1.group_ManningN)]
        ELSE g1

\* lines 349-358: a row without hydroid_ManningN
GMUncalibrated(g, h, len, thresh) ==
    LET g1 == [g EXCEPT !.dist_accum = g.dist_accum + len, !.hyid_count = 0]
    IN  IF GMApplies(g1, thresh)
        THEN [g1 EXCEPT !.out = Put(g1.out, h, g1.group_ManningN)]
        ELSE g1

\* mutant: a calibrated row leaves the accumulated distance as it is
GMCalibrated_KeepsDistance(g, h, n) ==
    LET g1 == [g EXCEPT !.hyid_count = g.hyid_count + 1]
        g2 == IF g1.hyid_count = 1
              THEN [g1 EXCEPT !.run_accum_mann = RZero, !.hyid_accum_count = 0]
              ELSE g1
        grp == RDiv(RAdd(n, g2.run_accum_mann), RInt(g2.hyid_count))
    IN  [g2 EXCEPT !.group_ManningN = grp,
                   !.out = Put(g2.out, h, grp),
                   !.run_accum_mann = RAdd(g2.run_accum_mann, n),
                   !.hyid_accum_count = g2.hyid_accum_count + 1]

\* lines 359-369: a row with hydroid_ManningN = n
GMCalibrated(g, h, n) ==
    LET g1 == [g EXCEPT !.dist_accum = 0, !.hyid_count = g.hyid_count + 1]
        g2 == IF g1.hyid_count = 1
              THEN [g1 EXCEPT !.run_accum_mann = RZero, !.hyid_accum_count = 0]
              ELSE g1
        grp == RDiv(RAdd(n, g2.run_accum_mann), RInt(g2.hyid_count))
    IN  [g2 EXCEPT !.group_ManningN = grp,
                   !.out = Put(g2.out, h, grp),
                   !.run_accum_mann = RAdd(g2.run_accum_mann, n),
                   !.hyid_accum_count = g2.hyid_accum_count + 1]

\* lines 331-369: one iteration of the loop over the rows of the frame
GMRow(tbl, frame, g, thresh) ==
    LET h  == frame.rows[g.i]
        g0 == GMBranchReset([g EXCEPT !.i = g.i + 1], frame.branch_id[h])
    IN  IF h \in DOMAIN frame.hydroid_ManningN
        THEN GMCalibrated(g0, h, frame.hydroid_ManningN[h])
        ELSE GMUncalibrated(g0, h, tbl[h].LENGTHKM, thresh)

GMLoopDone(frame, g) == g.i > Len(frame.rows)

\* line 198: left merge of df_mann_hydroid on HydroID
MergeMann(frame, m) ==
    [ rows             |-> frame.rows,
      branch_id        |-> frame.branch_id,
      route_count      |-> frame.route_count,
      hydroid_ManningN |-> [h \in Range(frame.rows) \cap DOMAIN m |-> m[h]] ]

\* lines 331-369: the loop; raises ValueError at a row without branch_id
RECURSIVE GMRun(_, _, _, _)
GMRun(tbl, frame, g, thresh) ==
    IF GMLoopDone(frame, g) THEN [raised |-> FALSE, out |-> g.out]
    ELSE IF GMRowRaises(frame, g) THEN [raised |-> TRUE, out |-> g.out]
    ELSE GMRun(tbl, frame, GMRow(tbl, frame, g, thresh), thresh)

(***************************************************************************)
(* update_rating_curve                                                     *)
(*                                                                         *)
(* The hydroTable has NStage rows per HydroID.  WetArea (m2) *              *)
(* HydraulicRadius (m)^(2/3) * SLOPE^(1/2) is one number per row, the      *)
(* conveyance Conveyance[s]; the code never changes these columns.         *)
(* A cell of a column of the file is keyed <<HydroID, row>>.               *)
(***************************************************************************)
\* stage of the rows of every rating curve, in decimetres
Stages == <<0, 3, 6, 9, 12>>
\* WetArea * HydraulicRadius^(2/3) * SLOPE^(1/2) of the rows
Conveyance == <<0, 2, 3, 5, 60>>
StageRows == 1..Len(Stages)
RowKeys == HydroIDs \X StageRows

RNaN == <<0, 0>>
\* a comparison with NaN is False
RLeq(x, y) == x # RNaN /\ y # RNaN /\ x[1] * y[2] <= y[1] * x[2]

\* the cell k of a column, NaN when it is null
Cell(col, k) == IF k \in DOMAIN col THEN col[k] ELSE RNaN

\* line 106: the row of the curve with the stage closest to HAND (idxmin:
\* the first of the closest rows)
FindSrcStage(hand) ==
    LET d(s) == Abs(Stages[s] - hand)
    IN  CHOOSE s \in StageRows :
            /\ \A r \in StageRows : d(s) <= d(r)
            /\ \A r \in StageRows : d(r) = d(s) => s <= r

\* line 79: some cell of default_discharge_cms is null
NeedsSnapshot(t) == DOMAIN t.default_discharge_cms # RowKeys

\* lines 71-81, 92-93: the ManningN and discharge_cms the run works from
WorkingManningN(t) == IF NeedsSnapshot(t) THEN t.ManningN ELSE t.default_ManningN

WorkingDischarge(t) ==
    IF NeedsSnapshot(t) THEN t.discharge_cms ELSE t.default_discharge_cms

\* line 89: obs_source_prev contains "usgs_rating"
IsUsgsRating(tag) == tag = "usgs_rating"

\* lines 83-89: df_prev_adj, the previous values that are retained
PrevAdj(t, merge_prev_adj) ==
    IF merge_prev_adj /\ DOMAIN t.adjust_ManningN # {}
    THEN {h \in DOMAIN t.obs_source : IsUsgsRating(t.obs_source[h])}
    ELSE {}

\* lines 97, 106-126: hydroid_ManningN of one observation, RNaN when the
\* HydroID is unknown or the row is masked at line 120
ObsManningN(t, o) ==
    IF o.hydroid \notin HydroIDs THEN RNaN
    ELSE LET s == FindSrcStage(o.hand)
         IN  IF Stages[s] <= STAGE_ZERO_TOL
                  \/ RLeq(Cell(WorkingDischarge(t), <<o.hydroid, s>>), RZero)
             THEN RNaN
             ELSE Rat(Conveyance[s], o.flow)

\* mutant: the upper limit is not tested
MannPass_NoMax(n) == n # RNaN /\ ~ RLeq(n, ROUGHNESS_MIN_THRESH)

\* line 129: Mann_flag = 'Pass'
MannPass(n) ==
    /\ n # RNaN
    /\ ~ RLeq(ROUGHNESS_MAX_THRESH, n)
    /\ ~ RLeq(n, ROUGHNESS_MIN_THRESH)

RECURSIVE SortRats(_)
\* the values of a sequence of rationals in ascending order
SortRats(q) ==
    IF q = <<>> THEN <<>>
    ELSE LET i == CHOOSE i \in 1..Len(q) : \A j \in 1..Len(q) : RLeq(q[i], q[j])
         IN  <<q[i]>> \o SortRats(SubSeq(q, 1, i - 1) \o SubSeq(q, i + 1, Len(q)))

\* line 164: median()
Median(q) ==
    LET v == SortRats(q)
        n == Len(q)
    IN  IF n % 2 = 1 THEN v[(n + 1) \div 2]
        ELSE RDiv(RAdd(v[n \div 2], v[n \div 2 + 1]), RInt(2))

RECURSIVE SumRats(_)
SumRats(q) == IF q = <<>> THEN RZero ELSE RAdd(Head(q), SumRats(Tail(q)))

\* line 205: mean()
Mean(q) == RDiv(SumRats(q), RInt(Len(q)))

\* lines 154, 164: df_mann_hydroid, the median per HydroID of the
\* observations that pass
MannHydroid(t, obs) ==
    LET n(o) == ObsManningN(t, o)
        pass(o) == MannPass(n(o))
        passed == SelectSeq(obs, pass)
        of(h) == LET at(o) == o.hydroid = h IN SelectSeq(passed, at)
    IN  [h \in {passed[i].hydroid : i \in 1..Len(passed)} |->
            Median([i \in 1..Len(of(h)) |-> n(of(h)[i])])]

\* lines 159-161: df_updated, last_updated and submitter of the most recent
\* passing observation per HydroID
Updated(t, obs) ==
    LET n(o) == ObsManningN(t, o)
        pass(o) == MannPass(n(o))
        passed == SelectSeq(obs, pass)
        P == Range(passed)
        last(h) == CHOOSE o \in P :
                      /\ o.hydroid = h
                      /\ \A x \in P : x.hydroid = h => x.coll_time <= o.coll_time
    IN  [h \in {o.hydroid : o \in P} |->
            [last_updated |-> last(h).coll_time, submitter |-> last(h).submitter]]

\* line 205: featid_ManningN, the mean of hydroid_ManningN over the rows of
\* the frame that share the feature_id
FeatidManningN(tbl, frame) ==
    LET rowsOf(f) == LET at(h) == tbl[h].feature_id = f /\ h \in DOMAIN frame.hydroid_ManningN
                     IN  SelectSeq(frame.rows, at)
        val(h) == frame.hydroid_ManningN[h]
    IN  [h \in {x \in Range(frame.rows) : rowsOf(tbl[x].feature_id) # <<>>} |->
            Mean([i \in 1..Len(rowsOf(tbl[h].feature_id)) |-> val(rowsOf(tbl[h].feature_id)[i])])]

\* lines 207-210: last_updated and submitter; a row without its own takes
\* those of the first row of its feature_id that has them
FeatidAttrib(tbl, frame, upd) ==
    LET rowsOf(f) == LET at(h) == tbl[h].feature_id = f /\ h \in DOMAIN upd
                     IN  SelectSeq(frame.rows, at)
    IN  [h \in {x \in Range(frame.rows) : rowsOf(tbl[x].feature_id) # <<>>} |->
            IF h \in DOMAIN upd THEN upd[h] ELSE upd[Head(rowsOf(tbl[h].feature_id))]]

\* mutant: the feature value replaces the direct value
SelectAdjust_FeatureFirst(h, hyd, feat, grp) ==
    IF h \in DOMAIN feat THEN <<TRUE, feat[h]>>
    ELSE IF h \in DOMAIN grp THEN <<TRUE, grp[h]>>
    ELSE IF h \in DOMAIN hyd THEN <<TRUE, hyd[h]>>
    ELSE <<FALSE, RNaN>>

\* mutant: the group value is taken before the feature value
SelectAdjust_GroupFirst(h, hyd, feat, grp) ==
    IF h \in DOMAIN hyd THEN <<TRUE, hyd[h]>>
    ELSE IF h \in DOMAIN grp THEN <<TRUE, grp[h]>>
    ELSE IF h \in DOMAIN feat THEN <<TRUE, feat[h]>>
    ELSE <<FALSE, RNaN>>

\* lines 218-220: np.select, the value of adjust_ManningN of one row
\* (hyd, feat and grp are the three columns)
SelectAdjust(h, hyd, feat, grp) ==
    IF h \notin DOMAIN hyd /\ h \in DOMAIN feat THEN <<TRUE, feat[h]>>
    ELSE IF h \notin DOMAIN hyd /\ h \notin DOMAIN feat /\ h \in DOMAIN grp
         THEN <<TRUE, grp[h]>>
    ELSE IF h \in DOMAIN hyd THEN <<TRUE, hyd[h]>>
    ELSE <<FALSE, RNaN>>

\* lines 218-220: the column adjust_ManningN
AdjustColumn(frame, feat, grp) ==
    LET sel(h) == SelectAdjust(h, frame.hydroid_ManningN, feat, grp)
    IN  [h \in {x \in Range(frame.rows) : sel(x)[1]} |-> sel(h)[2]]

\* mutant: only the 0 of the default discharge is kept
Discharge_ZeroOnly(k, n, default_q) ==
    IF default_q = RZero THEN RZero ELSE RDiv(RInt(k), n)

\* lines 264-270: discharge_cms of a row from its ManningN; the 0 and -999
\* of the default discharge are kept
Discharge(k, n, default_q) ==
    IF default_q = RZero THEN RZero
    ELSE IF default_q = RInt(NODATA) THEN RInt(NODATA)
    ELSE RDiv(RInt(k), n)

\* mutant: a previous value is taken where the run produced a value too
TakesPrevious_Overrides(h, prev, adjust, t) ==
    h \in prev /\ h \in DOMAIN t.adjust_ManningN

\* lines 225-231: the rows that take their previous value: in df_prev_adj,
\* without a new adjust_ManningN and with a previous one
TakesPrevious(h, prev, adjust, t) ==
    h \in prev /\ h \notin DOMAIN adjust /\ h \in DOMAIN t.adjust_ManningN

\* lines 221-231: one of the columns adjust_ManningN, obs_source, submitter
\* and last_updated after the previous values were merged in
WithPrevious(col, old, prev, adjust, t) ==
    LET takes(h) == TakesPrevious(h, prev, adjust, t)
    IN  [h \in {x \in HydroIDs : IF takes(x) THEN x \in DOMAIN old
                                              ELSE x \in DOMAIN col} |->
            IF takes(h) THEN old[h] ELSE col[h]]

\* what a call leaves when it returns before line 256 or raises
NoWrite(t, cat, outcome, log, mh) ==
    [ outcome |-> outcome, log |-> log, htable |-> t, catchments |-> cat,
      df_mann_hydroid |-> mh, prev_adj |-> EmptyCol, in_frame |-> {},
      hydroid_ManningN |-> EmptyCol, featid_ManningN |-> EmptyCol,
      group_ManningN |-> EmptyCol, merged |-> EmptyCol ]

\* lines 204-274: the merge of the tiers and the new hydroTable
MergeAndWrite(t, tbl, cat, frame, grp, mh, upd, prev, source_tag, log) ==
    LET feat    == FeatidManningN(tbl, frame)
        attrib  == FeatidAttrib(tbl, frame, upd)
        merged  == AdjustColumn(frame, feat, grp)
        adjust  == WithPrevious(merged, t.adjust_ManningN, prev, merged, t)
        source  == WithPrevious([h \in DOMAIN merged |-> source_tag],
                                t.obs_source, prev, merged, t)
        subm    == WithPrevious([h \in DOMAIN attrib |-> attrib[h].submitter],
                                t.submitter, prev, merged, t)
        last    == WithPrevious([h \in DOMAIN attrib |-> attrib[h].last_updated],
                                t.last_updated, prev, merged, t)
        wn      == WorkingManningN(t)
        wq      == WorkingDischarge(t)
        newn    == [k \in RowKeys |->
                      IF k[1] \in DOMAIN adjust THEN adjust[k[1]] ELSE wn[k]]
    IN  IF DOMAIN frame.hydroid_ManningN = {}
        THEN NoWrite(t, cat, "skipped", log \cup {"ALERT no valid hydroid roughness"}, mh)
        ELSE [ outcome |-> "written",
               log |-> log,
               htable |->
                 [ ManningN              |-> newn,
                   discharge_cms         |-> [k \in RowKeys |->
                                                Discharge(Conveyance[k[2]], newn[k], Cell(wq, k))],
                   default_ManningN      |-> wn,
                   default_discharge_cms |-> wq,
                   adjust_ManningN       |-> adjust,
                   obs_source            |-> source,
                   submitter             |-> subm,
                   last_updated          |-> last ],
               catchments |-> [h \in HydroIDs |-> h \in DOMAIN adjust],
               df_mann_hydroid |-> mh,
               prev_adj |-> [h \in prev \cap DOMAIN t.adjust_ManningN |->
                               t.adjust_ManningN[h]],
               in_frame |-> Range(frame.rows),
               hydroid_ManningN |-> frame.hydroid_ManningN,
               featid_ManningN |-> feat,
               group_ManningN |-> grp,
               merged |-> merged ]

\* lines 62-289: update_rating_curve on the hydroTable t of the segment
\* table tbl and the catchments layer cat.  The result names how the call
\* ended (written, skipped, or the exception it raised), the log text, the
\* files it leaves and the columns of df_nmerge.
UpdateRatingCurve(t, tbl, cat, obs, source_tag, merge_prev_adj, thresh) ==
    LET prev   == PrevAdj(t, merge_prev_adj)
        known(o) == o.hydroid \in HydroIDs
        pass(o)  == MannPass(ObsManningN(t, o))
        log1   == IF merge_prev_adj /\ DOMAIN t.adjust_ManningN # {}
                  THEN {"retaining previous calb attributes"} ELSE {}
        log2   == IF \E i \in 1..Len(obs) : ~ known(obs[i])
                  THEN log1 \cup {"ERROR HydroID not found"} ELSE log1
        log3   == IF \E i \in 1..Len(obs) : ~ pass(obs[i])
                  THEN log2 \cup {"Flaged Mannings Roughness"} ELSE log2
        mh     == MannHydroid(t, obs)
        upd    == Updated(t, obs)
    IN  IF \A i \in 1..Len(obs) : ~ known(obs[i])
        \* line 120: the columns the loop copies were never created
        THEN NoWrite(t, cat, "KeyError", log2, EmptyCol)
        ELSE IF DOMAIN mh = {}
        THEN NoWrite(t, cat, "skipped", log3 \cup {"ALERT no valid roughness"}, mh)
        ELSE IF NonLake(tbl) = {}
        THEN NoWrite(t, cat, "skipped", log3 \cup {"ALERT hydrotable is empty"}, mh)
        ELSE LET b == BNRun(tbl, BNInit(tbl))
             IN  IF ~ BNHasColumns(b)
                 THEN NoWrite(t, cat, "KeyError", log3, mh)
                 ELSE LET frame == MergeMann(BNResult(b), mh)
                          grp   == GMRun(tbl, frame, GMInit, thresh)
                      IN  IF grp.raised
                          THEN NoWrite(t, cat, "ValueError", log3, mh)
                          ELSE MergeAndWrite(t, tbl, cat, frame, grp.out, mh, upd,
                                             prev, source_tag, log3)

(***************************************************************************)
(* Segment tables.  A lake row is dropped at line 293 before any of its    *)
(* other cells is read, so lake rows carry one fixed NextDownID and order. *)
(***************************************************************************)
SegRow(n, l, o, len, f) ==
    [NextDownID |-> n, LakeID |-> l, order_ |-> o, LENGTHKM |-> len, feature_id |-> f]

NetRows ==
    {SegRow(n, NON_LAKE, o, 1, 1) : n \in HydroIDs \cup {OutsideID}, o \in Orders}
        \cup {SegRow(OutsideID, SOME_LAKE, 1, 1, 1)}

(***************************************************************************)
(* hydroTables and observations.                                           *)
(***************************************************************************)
\* ManningN of every row of a hydroTable that was never calibrated
DefaultN == Rat(6, 100)

\* a hydroTable that was never calibrated: discharge 0 at stage 0, the
\* no-data value in the row above it, Manning's equation in the others
FreshTable ==
    [ ManningN              |-> [k \in RowKeys |-> DefaultN],
      discharge_cms         |-> [k \in RowKeys |->
                                   IF k[2] = 2 THEN RInt(NODATA)
                                   ELSE RDiv(RInt(Conveyance[k[2]]), DefaultN)],
      default_ManningN      |-> EmptyCol,
      default_discharge_cms |-> EmptyCol,
      adjust_ManningN       |-> EmptyCol,
      obs_source            |-> EmptyCol,
      submitter             |-> EmptyCol,
      last_updated          |-> EmptyCol ]

\* the row whose discharge is null where a curve has a null discharge
\* (identify_src_bankfull.py line 75: lake or coastal flow lines)
NullCell == <<1, 4>>

\* a hydroTable that was never calibrated whose discharge_cms is null in
\* one row
NullCellTable ==
    [FreshTable EXCEPT !.discharge_cms =
        [k \in RowKeys \ {NullCell} |-> FreshTable.discharge_cms[k]]]

\* the hydroTables a unit starts from
HydroTables == {FreshTable, NullCellTable}

\* HAND of the observations: closest to the stages 0, 6, 9 and 12
Hands == {1, 7, 10, 13}

\* an observation of flow 100; the later one at a HydroID is the higher one
Observation(h, hand) ==
    [ hydroid |-> h, hand |-> hand, flow |-> 100, coll_time |-> hand,
      submitter |-> IF hand < 10 THEN "low" ELSE "high" ]

\* the observations of the model: any HAND at a HydroID of the table, and
\* one observation at a HydroID that the table does not have
Observations ==
    {Observation(h, hand) : h \in HydroIDs, hand \in Hands}
        \cup {Observation(OutsideID, 7)}

ObsKey(o) == o.hydroid * 100 + o.hand

RECURSIVE ObsSeq(_)
\* a set of observations as the rows of water_edge_median_df
ObsSeq(S) ==
    IF S = {} THEN <<>>
    ELSE LET o == CHOOSE x \in S : \A y \in S : ObsKey(x) <= ObsKey(y)
         IN  <<o>> \o ObsSeq(S \ {o})

\* the observation sets of a call: all that exist, or all but the last row
ObsSets(P) ==
    IF P = {} THEN {P}
    ELSE {P, P \ {CHOOSE x \in P : \A y \in P : ObsKey(y) <= ObsKey(x)}}

SourceTags == {"usgs_rating", "point_obs"}

NoRun ==
    [ n |-> 0, obs |-> {}, source_tag |-> "point_obs", merge_prev_adj |-> FALSE,
      outcome |-> "none", log |-> {}, nvalues |-> EmptyCol,
      df_mann_hydroid |-> EmptyCol, prev_adj |-> EmptyCol, in_frame |-> {},
      hydroid_ManningN |-> EmptyCol, featid_ManningN |-> EmptyCol,
      group_ManningN |-> EmptyCol, merged |-> EmptyCol ]

\* no hydroTable file
NoTable ==
    [ ManningN              |-> EmptyCol,
      discharge_cms         |-> EmptyCol,
      default_ManningN      |-> EmptyCol,
      default_discharge_cms |-> EmptyCol,
      adjust_ManningN       |-> EmptyCol,
      obs_source            |-> EmptyCol,
      submitter             |-> EmptyCol,
      last_updated          |-> EmptyCol ]

\* no run of identify_src_bankfull
NoPool ==
    [ pc |-> "none", number_of_jobs |-> 0, raises |-> {}, missing |-> {},
      taken |-> {}, busy |-> {}, unit |-> <<>>, log_file |-> <<>> ]

\* the variables of update_rating_curve where it is not part of the model
CalibIdle ==
    /\ htable = NoTable
    /\ original = NoTable
    /\ catchments = EmptyCol
    /\ pool = {}
    /\ run = NoRun
    /\ mp = NoPool

(***************************************************************************)
(* Specification SpecNet: branch_network on every table of NSeg segments.  *)
(***************************************************************************)
InitNet ==
    /\ segs \in [HydroIDs -> NetRows]
    /\ bn = BNInit(segs)
    /\ df = NoFrame
    /\ mann = EmptyCol
    /\ gm = GMInit
    /\ pc = "walk"
    /\ CalibIdle

NetPopHead ==
    /\ pc = "walk"
    /\ bn.Q = <<>>
    /\ bn.branch_heads # <<>>
    /\ bn' = BNPop(bn)
    /\ UNCHANGED <<pc, segs, df, mann, gm, calvars>>

NetVisit ==
    /\ pc = "walk"
    /\ bn.Q # <<>>
    /\ bn' = BNVisit(segs, bn)
    /\ UNCHANGED <<pc, segs, df, mann, gm, calvars>>

NetSort ==
    /\ pc = "walk"
    /\ BNLoopDone(bn)
    /\ BNHasColumns(bn)
    /\ df' = BNResult(bn)
    /\ pc' = "returned"
    /\ UNCHANGED <<segs, bn, mann, gm, calvars>>

NetSortError ==
    /\ pc = "walk"
    /\ BNLoopDone(bn)
    /\ ~ BNHasColumns(bn)
    /\ pc' = "KeyError"
    /\ UNCHANGED <<segs, bn, df, mann, gm, calvars>>

NextNet == NetPopHead \/ NetVisit \/ NetSort \/ NetSortError

SpecNet == InitNet /\ [][NextNet]_vars

\* branch_network is sequential code: the statement that is enabled is run
SpecNetFair == SpecNet /\ WF_vars(NextNet)

(***************************************************************************)
(* Specification SpecGroup: branch_network, the merge of the direct values *)
(* and group_manningn_calc (lines 195-202).  group_manningn_calc reads the *)
(* rows in the order branch_network returns them together with branch_id,  *)
(* hydroid_ManningN and LENGTHKM, so the tables are chains cut into        *)
(* branches by sinks, lake rows and rows that drain into themselves.       *)
(***************************************************************************)
MannVals == {Rat(3, 100), Rat(5, 100)}

Lengths == 1..MaxLen

GroupRows(i) ==
    {SegRow(n, NON_LAKE, 1, len, 1) :
        n \in ({i, i + 1} \cap HydroIDs) \cup {OutsideID}, len \in Lengths}
        \cup {SegRow(OutsideID, SOME_LAKE, 1, 1, 1)}

PartialCols(S, V) == UNION {[D -> V] : D \in SUBSET S}

InitGroup ==
    /\ segs \in {t \in [HydroIDs -> UNION {GroupRows(i) : i \in HydroIDs}] :
                    \A i \in HydroIDs : t[i] \in GroupRows(i)}
    /\ mann \in PartialCols(HydroIDs, MannVals)
    /\ bn = BNInit(segs)
    /\ df = NoFrame
    /\ gm = GMInit
    /\ pc = "walk"
    /\ CalibIdle

GrpMerge ==
    /\ pc = "returned"
    /\ df' = MergeMann(df, mann)
    /\ gm' = GMInit
    /\ pc' = "group"
    /\ UNCHANGED <<segs, bn, mann, calvars>>

GrpRowCalibrated ==
    /\ pc = "group"
    /\ ~ GMLoopDone(df, gm)
    /\ ~ GMRowRaises(df, gm)
    /\ df.rows[gm.i] \in DOMAIN df.hydroid_ManningN
    /\ gm' = GMRow(segs, df, gm, DOWNSTREAM_THRESHOLD)
    /\ UNCHANGED <<pc, segs, bn, df, mann, calvars>>

GrpRowUncalibrated ==
    /\ pc = "group"
    /\ ~ GMLoopDone(df, gm)
    /\ ~ GMRowRaises(df, gm)
    /\ df.rows[gm.i] \notin DOMAIN df.hydroid_ManningN
    /\ gm' = GMRow(segs, df, gm, DOWNSTREAM_THRESHOLD)
    /\ UNCHANGED <<pc, segs, bn, df, mann, calvars>>

GrpRowRaises ==
    /\ pc = "group"
    /\ ~ GMLoopDone(df, gm)
    /\ GMRowRaises(df, gm)
    /\ pc' = "ValueError"
    /\ UNCHANGED <<segs, bn, df, mann, gm, calvars>>

GrpReturn ==
    /\ pc = "group"
    /\ GMLoopDone(df, gm)
    /\ pc' = "grouped"
    /\ UNCHANGED <<segs, bn, df, mann, gm, calvars>>

NextGroup ==
    \/ NetPopHead \/ NetVisit \/ NetSort \/ NetSortError
    \/ GrpMerge \/ GrpRowCalibrated \/ GrpRowUncalibrated \/ GrpRowRaises \/ GrpReturn

SpecGroup == InitGroup /\ [][NextGroup]_vars

(***************************************************************************)
(* Properties of branch_network (SpecNet).                                 *)
(***************************************************************************)
Members(k) == {h \in DOMAIN bn.branch_id : bn.branch_id[h] = k}

BranchIds == {bn.branch_id[h] : h \in DOMAIN bn.branch_id}

RouteCountsFromZero ==
    /\ DOMAIN bn.route_count = DOMAIN bn.branch_id
    /\ \A k \in BranchIds :
          /\ {bn.route_count[h] : h \in Members(k)} = 0..(Cardinality(Members(k)) - 1)
          /\ \A h, g \in Members(k) : bn.route_count[h] = bn.route_count[g] => h = g

AssignedOnce ==
    \A h \in DOMAIN bn.branch_id :
        /\ h \in DOMAIN bn'.branch_id
        /\ bn'.branch_id[h] = bn.branch_id[h]
        /\ bn'.route_count[h] = bn.route_count[h]

VisitOrder ==
    \A h \in (DOMAIN bn'.branch_id) \ (DOMAIN bn.branch_id) :
        bn'.route_count[h] = Cardinality(Members(bn'.branch_id[h]))

\* C1: no HydroID is assigned to two branches (an assignment is never
\* replaced), and within every branch the route_count values are distinct
\* and are 0, 1, 2, ... in the order the segments were visited.
C1_Partition == [][AssignedOnce /\ VisitOrder /\ RouteCountsFromZero']_vars

\* a confluence that two branches enqueued is a branch of its own: three
\* branches, and the frame was returned
C1_Witness ==
    /\ pc = "returned"
    /\ Cardinality(BranchIds) >= 2
    /\ \E k \in BranchIds : Cardinality(Members(k)) >= 2
    /\ bn.branch_count > Cardinality(BranchIds)

RowIndex(h) == CHOOSE i \in 1..Len(df.rows) : df.rows[i] = h

\* C2: the returned frame is sorted ascending by (branch_id, route_count),
\* and two segments of one branch with route_count r and r+1 are joined by
\* NextDownID: the branch reads upstream-to-downstream.
C2_UpstreamToDownstream ==
    pc = "returned" =>
        /\ \A i, j \in 1..Len(df.rows) :
              (i < j /\ df.rows[i] \in DOMAIN df.branch_id
                     /\ df.rows[j] \in DOMAIN df.branch_id) =>
                 \/ df.branch_id[df.rows[i]] < df.branch_id[df.rows[j]]
                 \/ /\ df.branch_id[df.rows[i]] = df.branch_id[df.rows[j]]
                    /\ df.route_count[df.rows[i]] < df.route_count[df.rows[j]]
        /\ \A h, g \in DOMAIN df.branch_id :
              (df.branch_id[h] = df.branch_id[g]
                 /\ df.route_count[g] = df.route_count[h] + 1) =>
                 /\ segs[h].NextDownID = g
                 /\ RowIndex(g) = RowIndex(h) + 1

\* a branch of three segments that is not in file order
C2_Witness ==
    /\ pc = "returned"
    /\ \E h, g, f \in DOMAIN df.branch_id :
          /\ df.branch_id[h] = df.branch_id[g] /\ df.branch_id[g] = df.branch_id[f]
          /\ df.route_count[h] = 0 /\ df.route_count[g] = 1 /\ df.route_count[f] = 2
          /\ g < h

(***************************************************************************)
(* Properties of group_manningn_calc (SpecGroup).                          *)
(***************************************************************************)
Calibrated(i) == df.rows[i] \in DOMAIN df.hydroid_ManningN

SameBranch(i, j) ==
    /\ df.rows[i] \in DOMAIN df.branch_id
    /\ df.rows[j] \in DOMAIN df.branch_id
    /\ df.branch_id[df.rows[i]] = df.branch_id[df.rows[j]]

\* the rows of the gap row i lies in: i and the rows before it, back to the
\* last calibrated row of its branch or to the head of the branch
GapRows(i) ==
    {j \in 1..i : SameBranch(i, j) /\ \A m \in j..i : ~ Calibrated(m)}

RECURSIVE SumLength(_)
SumLength(S) ==
    IF S = {} THEN 0
    ELSE LET j == CHOOSE x \in S : TRUE
         IN  segs[df.rows[j]].LENGTHKM + SumLength(S \ {j})

\* accumulated downstream distance of the non-calibrated row i
AccumDist(i) == SumLength(GapRows(i))

\* the last calibrated row upstream of row i in its branch, 0 if none
LastCalibrated(i) ==
    LET C == {j \in 1..i : SameBranch(i, j) /\ Calibrated(j)}
    IN  IF C = {} THEN 0 ELSE CHOOSE j \in C : \A m \in C : m <= j

\* the calibrated rows of the run that ends at the calibrated row j
RunRows(j) ==
    {m \in 1..j : SameBranch(j, m) /\ \A x \in m..j : Calibrated(x)}

\* number of segments in the most recent run of calibrated rows upstream of i
UpstreamRun(i) ==
    IF LastCalibrated(i) = 0 THEN 0 ELSE Cardinality(RunRows(LastCalibrated(i)))

Processed == IF pc \in {"group", "grouped"} THEN 1..(gm.i - 1) ELSE {}

Emitted(i) == df.rows[i] \in DOMAIN gm.out

\* C5: no group_ManningN for a non-calibrated segment whose accumulated
\* distance since the last calibrated segment of its branch is at or above
\* down_dist_thresh.
C5_DistanceBound ==
    \A i \in Processed :
        (~ Calibrated(i) /\ AccumDist(i) >= DOWNSTREAM_THRESHOLD) => ~ Emitted(i)

\* two calibrated segments, then a non-calibrated one at the threshold
C5_Witness ==
    \E i \in Processed :
        /\ ~ Calibrated(i)
        /\ UpstreamRun(i) >= 2
        /\ AccumDist(i) >= DOWNSTREAM_THRESHOLD
        /\ ~ Emitted(i)

\* C6: a non-calibrated segment gets a group_ManningN only if the most
\* recent run of consecutive calibrated segments upstream of it in its
\* branch has at least two segments.
C6_TwoContributors ==
    \A i \in Processed :
        (~ Calibrated(i) /\ Emitted(i)) => UpstreamRun(i) >= 2

\* one isolated calibrated segment, a non-calibrated one right below it
\* within the threshold: no group value
C6_Witness ==
    \E i \in Processed :
        /\ ~ Calibrated(i)
        /\ UpstreamRun(i) = 1
        /\ AccumDist(i) < DOWNSTREAM_THRESHOLD
        /\ ~ Emitted(i)

Lakes == {h \in HydroIDs : segs[h].LakeID # NON_LAKE}

\* C10: a lake segment has no branch_id and no route_count, is never a
\* branch head or a walk successor, is no row of the frame that
\* group_manningn_calc reads (so neither its roughness nor its length enters
\* a group value) and gets no group_ManningN.
C10_LakesExcluded ==
    \A h \in Lakes :
        /\ h \notin DOMAIN bn.branch_id
        /\ h \notin DOMAIN bn.route_count
        /\ h \notin Range(bn.branch_heads)
        /\ h \notin Range(bn.Q)
        /\ h \notin bn.visited
        /\ h \notin Range(df.rows)
        /\ pc \in {"group", "grouped"} => h \notin DOMAIN df.hydroid_ManningN
        /\ h \notin DOMAIN gm.out

\* a lake segment with a direct value, below a calibrated run of two
C10_Witness ==
    /\ pc = "grouped"
    /\ \E h \in Lakes :
          /\ h \in DOMAIN mann
          /\ \E g \in HydroIDs \ Lakes :
                /\ segs[g].NextDownID = h
                /\ g \in DOMAIN gm.out
                /\ UpstreamRun(RowIndex(g)) >= 2

(***************************************************************************)
(* Specification SpecCalib: calls of update_rating_curve on the hydroTable *)
(* of a chain of NSeg segments, each call with some of the observations    *)
(* that exist for the unit.                                                *)
(***************************************************************************)
CalibRows(i) ==
    {SegRow(IF i < NSeg THEN i + 1 ELSE OutsideID, l, 1, 1, f) :
        l \in {NON_LAKE, SOME_LAKE}, f \in {1, 2}}

InitCalib ==
    /\ segs \in {t \in [HydroIDs -> UNION {CalibRows(i) : i \in HydroIDs}] :
                    /\ \A i \in HydroIDs : t[i] \in CalibRows(i)
                    /\ t[1].feature_id = 1
                    /\ Cardinality({i \in HydroIDs : t[i].LakeID # NON_LAKE}) <= 1}
    /\ pool \in {S \in SUBSET Observations : Cardinality(S) <= MaxObs}
    /\ htable \in HydroTables
    /\ original = htable
    /\ catchments = EmptyCol
    /\ run = NoRun
    /\ bn = BNInit(segs)
    /\ df = NoFrame
    /\ mann = EmptyCol
    /\ gm = GMInit
    /\ pc = "calibration"
    /\ mp = NoPool

Calibrate ==
    /\ pc = "calibration"
    /\ run.n < MaxRuns
    /\ \E S \in ObsSets(pool), tag \in SourceTags, merge \in BOOLEAN :
          \E r \in {UpdateRatingCurve(htable, segs, catchments, ObsSeq(S), tag,
                                       merge, DOWNSTREAM_THRESHOLD)} :
              /\ htable' = r.htable
              /\ catchments' = r.catchments
              /\ run' = [ n |-> run.n + 1, obs |-> S, source_tag |-> tag,
                          merge_prev_adj |-> merge,
                          outcome |-> r.outcome, log |-> r.log,
                          nvalues |-> [o \in S |-> ObsManningN(htable, o)],
                          df_mann_hydroid |-> r.df_mann_hydroid,
                          prev_adj |-> r.prev_adj,
                          in_frame |-> r.in_frame,
                          hydroid_ManningN |-> r.hydroid_ManningN,
                          featid_ManningN |-> r.featid_ManningN,
                          group_ManningN |-> r.group_ManningN,
                          merged |-> r.merged ]
    /\ UNCHANGED <<netvars, pool, original, mp>>

NextCalib == Calibrate

SpecCalib == InitCalib /\ [][NextCalib]_vars

(***************************************************************************)
(* identify_src_bankfull.py: run_prep hands procs_list to multi_process,   *)
(* which maps src_bankfull_lookup over it in a Pool of number_of_jobs      *)
(* worker processes and writes the returned log texts to the log file.     *)
(*                                                                         *)
(* Pool.map (the standard library) cuts the list into chunks, a worker     *)
(* runs the units of a chunk one after the other, and an exception in a    *)
(* unit ends its chunk.  map returns when every chunk is done: the list of *)
(* results if no unit raised, otherwise it re-raises the first exception   *)
(* in the parent process.                                                  *)
(***************************************************************************)
Units == 1..NUnits

\* Pool._map_async: chunksize, extra = divmod(len(iterable), 4 * processes)
ChunkSize(n, jobs) ==
    IF n % (4 * jobs) = 0 THEN n \div (4 * jobs) ELSE n \div (4 * jobs) + 1

ChunkOf(u, jobs) == (u - 1) \div ChunkSize(NUnits, jobs) + 1

Chunks(jobs) == {ChunkOf(u, jobs) : u \in Units}

UnitsOf(c, jobs) == {u \in Units : ChunkOf(u, jobs) = c}

\* the log text src_bankfull_lookup returns for a unit (lines 46, 123)
LogText(u) == [unit |-> u, text |-> "Completed"]

\* line 206: the log file is open and headed, nothing is mapped yet
PoolInit(jobs, R) ==
    [ pc |-> "map", number_of_jobs |-> jobs, raises |-> R, missing |-> {},
      taken |-> {}, busy |-> {}, unit |-> [u \in Units |-> "queued"],
      log_file |-> <<"START TIME">> ]

\* the unit a busy chunk runs next
NextUnit(m, c) ==
    Min({u \in UnitsOf(c, m.number_of_jobs) : m.unit[u] = "queued"})

LastOfChunk(m, u) ==
    \A v \in UnitsOf(ChunkOf(u, m.number_of_jobs), m.number_of_jobs) : v <= u

AllDone(m) == m.taken = Chunks(m.number_of_jobs) /\ m.busy = {}

Raised(m) == {u \in Units : m.unit[u] = "raised"}

\* line 164: one line per item of map_output, in the order of procs_list
RECURSIVE MapOutput(_)
MapOutput(n) == IF n = 0 THEN <<>> ELSE Append(MapOutput(n - 1), LogText(n))

InitPool ==
    /\ mp \in {PoolInit(j, R) : j \in 1..MaxJobs, R \in SUBSET Units}
    /\ segs = [i \in HydroIDs |-> SegRow(OutsideID, NON_LAKE, 1, 1, 1)]
    /\ bn = BNInit(segs)
    /\ df = NoFrame
    /\ mann = EmptyCol
    /\ gm = GMInit
    /\ pc = "bankfull"
    /\ htable = NoTable
    /\ original = NoTable
    /\ catchments = EmptyCol
    /\ pool = {}
    /\ run = NoRun

PoolUnchanged ==
    UNCHANGED <<netvars, htable, original, catchments, pool, run>>

\* a free worker takes the next chunk of the task queue
PoolTake ==
    /\ mp.pc = "map"
    /\ Cardinality(mp.busy) < mp.number_of_jobs
    /\ mp.taken # Chunks(mp.number_of_jobs)
    /\ \E c \in {Min(Chunks(mp.number_of_jobs) \ mp.taken)} :
          mp' = [mp EXCEPT !.taken = @ \cup {c}, !.busy = @ \cup {c}]
    /\ PoolUnchanged

\* src_bankfull_lookup runs to its return at line 131: the table is written
UnitCompletes ==
    /\ mp.pc = "map"
    /\ \E c \in mp.busy :
          \E u \in {NextUnit(mp, c)} :
              /\ u \notin mp.raises
              /\ mp' = [mp EXCEPT !.unit[u] = "completed",
                                  !.busy = IF LastOfChunk(mp, u)
                                           THEN @ \ {c} ELSE @]
    /\ PoolUnchanged

\* src_bankfull_lookup raises: the rest of the chunk is never run
UnitRaises ==
    /\ mp.pc = "map"
    /\ \E c \in mp.busy :
          \E u \in {NextUnit(mp, c)} :
              /\ u \in mp.raises
              /\ mp' = [mp EXCEPT !.unit[u] = "raised", !.busy = @ \ {c}]
    /\ PoolUnchanged

\* line 163 returns map_output
MapReturns ==
    /\ mp.pc = "map"
    /\ AllDone(mp)
    /\ Raised(mp) = {}
    /\ mp' = [mp EXCEPT !.pc = "mapped"]
    /\ PoolUnchanged

\* line 163 re-raises; the exception leaves multi_process and run_prep
MapRaises ==
    /\ mp.pc = "map"
    /\ AllDone(mp)
    /\ Raised(mp) # {}
    /\ mp' = [mp EXCEPT !.pc = "exception"]
    /\ PoolUnchanged

\* line 164
WriteLogTexts ==
    /\ mp.pc = "mapped"
    /\ mp' = [mp EXCEPT !.pc = "logged",
                        !.log_file = @ \o MapOutput(NUnits)]
    /\ PoolUnchanged

\* lines 210-214
CloseLog ==
    /\ mp.pc = "logged"
    /\ mp' = [mp EXCEPT !.pc = "closed",
                        !.log_file = Append(@, "END TIME")]
    /\ PoolUnchanged

NextPool ==
    \/ PoolTake
    \/ UnitCompletes
    \/ UnitRaises
    \/ MapReturns
    \/ MapRaises
    \/ WriteLogTexts
    \/ CloseLog

SpecPool == InitPool /\ [][NextPool]_vars

(***************************************************************************)
(* Specification SpecPrep: run_prep from its first line.  The branch       *)
(* directories are the units 1..NUnits in the order the loop of lines      *)
(* 183-198 lists them; the src_full_crosswalked file of the units in       *)
(* `missing` does not exist.  log_file is a local variable of run_prep     *)
(* that is assigned at line 201: before that the name is unbound, and a    *)
(* use of it raises UnboundLocalError.                                     *)
(***************************************************************************)
Unbound == "unbound"

\* lines 167-182: nothing is listed yet
PrepInit(jobs, R, M) ==
    [ pc |-> "prep", number_of_jobs |-> jobs, raises |-> R, missing |-> M,
      taken |-> {}, busy |-> {}, unit |-> [u \in Units |-> "listed"],
      log_file |-> Unbound ]

Listed(m) == {u \in Units : m.unit[u] = "listed"}

InitPrep ==
    /\ mp \in {PrepInit(j, R, M) : j \in 1..MaxJobs, R \in SUBSET Units,
                                  M \in {{}} \cup {{u} : u \in Units}}
    /\ segs = [i \in HydroIDs |-> SegRow(OutsideID, NON_LAKE, 1, 1, 1)]
    /\ bn = BNInit(segs)
    /\ df = NoFrame
    /\ mann = EmptyCol
    /\ gm = GMInit
    /\ pc = "bankfull"
    /\ htable = NoTable
    /\ original = NoTable
    /\ catchments = EmptyCol
    /\ pool = {}
    /\ run = NoRun

\* lines 193-195: the file exists, the unit is appended to procs_list
PrepQueues ==
    /\ mp.pc = "prep"
    /\ Listed(mp) # {}
    /\ \E u \in {Min(Listed(mp))} :
          /\ u \notin mp.missing
          /\ mp' = [mp EXCEPT !.unit[u] = "queued"]
    /\ PoolUnchanged

\* lines 196-198: the file is missing; line 198 writes to log_file
PrepSkips ==
    /\ mp.pc = "prep"
    /\ Listed(mp) # {}
    /\ \E u \in {Min(Listed(mp))} :
          /\ u \in mp.missing
          /\ mp' = IF mp.log_file = Unbound
                   THEN [mp EXCEPT !.pc = "UnboundLocalError"]
                   ELSE [mp EXCEPT !.unit[u] = "skipped",
                                   !.log_file = Append(@, [unit |-> u,
                                                           text |-> "WARNING"])]
    /\ PoolUnchanged

\* lines 200-204: the log file is opened and headed
PrepOpens ==
    /\ mp.pc = "prep"
    /\ Listed(mp) = {}
    /\ mp' = [mp EXCEPT !.pc = "map", !.log_file = <<"START TIME">>]
    /\ PoolUnchanged

NextPrep == PrepQueues \/ PrepSkips \/ PrepOpens \/ NextPool

SpecPrep == InitPrep /\ [][NextPrep]_vars

(***************************************************************************)
(* Specification SpecChain: group_manningn_calc on the frame of a table    *)
(* that is one branch of NChain segments, each draining to the next, with  *)
(* every choice of lengths and of direct roughness values.  The state      *)
(* after line 198: branch_network has returned the frame and               *)
(* df_mann_hydroid is merged onto it.                                      *)
(***************************************************************************)
ChainIDs == 1..NChain

\* lengths below the threshold and at the threshold
ChainLengths == 1..DOWNSTREAM_THRESHOLD

ChainTable(len) ==
    [i \in ChainIDs |-> SegRow(i + 1, NON_LAKE, 1, len[i], 1)]

InitChain ==
    /\ segs \in {ChainTable(len) : len \in [ChainIDs -> ChainLengths]}
    /\ mann \in PartialCols(ChainIDs, MannVals)
    /\ bn = BNRun(segs, BNInit(segs))
    /\ df = MergeMann(BNResult(bn), mann)
    /\ gm = GMInit
    /\ pc = "group"
    /\ CalibIdle

NextChain == GrpRowCalibrated \/ GrpRowUncalibrated \/ GrpReturn

SpecChain == InitChain /\ [][NextChain]_vars

(***************************************************************************)
(* Properties of update_rating_curve (SpecCalib).                          *)
(***************************************************************************)
Written == run.outcome = "written"

IsNonLake(h) == segs[h].LakeID = NON_LAKE

\* C3 as claimed: after a calibration every segment of the table that has a
\* direct value has exactly that value as adjust_ManningN.
C3_DirectWins_EverySegment ==
    Written =>
        \A h \in DOMAIN run.df_mann_hydroid :
            /\ h \in DOMAIN htable.adjust_ManningN
            /\ htable.adjust_ManningN[h] = run.df_mann_hydroid[h]

\* C3 amended: after a calibration every segment that is not a lake segment
\* and has a direct value has exactly that value as adjust_ManningN.
C3_DirectWins ==
    Written =>
        \A h \in DOMAIN run.df_mann_hydroid :
            IsNonLake(h) =>
                /\ h \in DOMAIN htable.adjust_ManningN
                /\ htable.adjust_ManningN[h] = run.df_mann_hydroid[h]

\* a direct value next to a different feature value, a different group
\* value and a different retained previous value
C3_Witness ==
    /\ Written
    /\ \E h \in DOMAIN run.df_mann_hydroid :
          /\ IsNonLake(h)
          /\ h \in DOMAIN run.featid_ManningN
          /\ run.featid_ManningN[h] # run.df_mann_hydroid[h]
          /\ h \in DOMAIN run.group_ManningN
          /\ run.group_ManningN[h] # run.df_mann_hydroid[h]
          /\ h \in DOMAIN run.prev_adj
          /\ run.prev_adj[h] # run.df_mann_hydroid[h]

\* the mean of a column over a set of HydroIDs
MeanOver(col, S) ==
    LET q == SortedSeq(S) IN Mean([i \in 1..Len(q) |-> col[q[i]]])

\* the value a tier gives, <<FALSE, RNaN>> for null
Chosen(col, h) == IF h \in DOMAIN col THEN <<TRUE, col[h]>> ELSE <<FALSE, RNaN>>

\* the merge by priority for a segment without a direct value: the mean of
\* the direct values of the segments of S, else the group value, else null
ByPriority(h, S) ==
    IF S # {} THEN <<TRUE, MeanOver(run.df_mann_hydroid, S)>>
    ELSE Chosen(run.group_ManningN, h)

SharesFeature(h) ==
    {g \in DOMAIN run.df_mann_hydroid : segs[g].feature_id = segs[h].feature_id}

C7_Idempotent ==
    [][ ( /\ run.n > 0
          /\ run'.n = run.n + 1
          /\ run'.obs = run.obs
          /\ run'.source_tag = run.source_tag
          /\ ~ run.merge_prev_adj
          /\ ~ run'.merge_prev_adj )
        => (htable' = htable /\ run'.outcome = run.outcome) ]_vars

\* C8: whatever calls were made, default_ManningN and
\* default_discharge_cms of a written table are the ManningN and
\* discharge_cms of the table before the first call.
C8_DefaultsKept ==
    htable # original =>
        /\ htable.default_ManningN = original.ManningN
        /\ htable.default_discharge_cms = original.discharge_cms

C11_NeverRaises ==
    NonLake(segs) # {} => pc \notin {"KeyError", "ValueError"}

\* a processing step of the inner loop that assigns a branch or a rank
Assigns(h) ==
    /\ h \in DOMAIN bn'.branch_id
    /\ \/ h \notin DOMAIN bn.branch_id
       \/ bn'.branch_id[h] # bn.branch_id[h]
       \/ bn'.route_count[h] # bn.route_count[h]

\* C12: the traversal loop of branch_network ends on every table, and no
\* segment is visited a second time (SpecNetFair).
C12_Terminates ==
    /\ [][\A h \in HydroIDs : Assigns(h) => h \notin bn.visited]_vars
    /\ <>(pc # "walk")

\* the loop has ended on a table with a segment that drains into itself,
\* where a branch head was popped that had been visited before
C12_Witness ==
    /\ pc = "returned"
    /\ bn.branch_count > Cardinality(BranchIds)
    /\ \E h \in bn.visited : segs[h].NextDownID = h

(***************************************************************************)
(* Observations of update_rating_curve (SpecCalib).                        *)
(***************************************************************************)
\* the call reached the roughness calculation of line 124
Calculated == run.n > 0 /\ run.outcome # "KeyError"

\* strictly between ROUGHNESS_MIN_THRESH and ROUGHNESS_MAX_THRESH
InRange(n) ==
    /\ n # RNaN
    /\ RLess(ROUGHNESS_MIN_THRESH, n)
    /\ RLess(n, ROUGHNESS_MAX_THRESH)

\* the observations of segment h whose computed roughness is in range
PassingAt(h) == {o \in run.obs : o.hydroid = h /\ InRange(run.nvalues[o])}

\* m is the median of the roughness of the observations P
IsMedianOf(m, P) ==
    LET below == Cardinality({o \in P : RLess(run.nvalues[o], m)})
        above == Cardinality({o \in P : RLess(m, run.nvalues[o])})
        n     == Cardinality(P)
    IN  \/ /\ \E o \in P : run.nvalues[o] = m
           /\ 2 * below < n
           /\ 2 * above < n
        \/ /\ 2 * below = n
           /\ 2 * above = n
           /\ \E lo, hi \in P :
                 /\ RLess(run.nvalues[lo], m)
                 /\ RLess(m, run.nvalues[hi])
                 /\ \A o \in P : ~ ( /\ RLess(run.nvalues[lo], run.nvalues[o])
                                      /\ RLess(run.nvalues[o], run.nvalues[hi]) )
                 /\ RAdd(m, m) = RAdd(run.nvalues[lo], run.nvalues[hi])

ValuesInRange(col) == \A h \in DOMAIN col : InRange(col[h])

Unmatched == {o \in run.obs : o.hydroid \notin HydroIDs}

\* C14: a call with an unmatched observation logs it, gives it no part in
\* any roughness value and returns without raising.
C14_UnmatchedTolerated ==
    (run.n > 0 /\ Unmatched # {}) =>
        /\ "ERROR HydroID not found" \in run.log
        /\ run.outcome \in {"written", "skipped"}
        /\ \A o \in Unmatched : o.hydroid \notin DOMAIN run.df_mann_hydroid

\* the unit of the call that ends in run' is degenerate: no non-lake
\* segment has a direct value
Degenerate == DOMAIN run'.df_mann_hydroid \cap NonLake(segs) = {}

\* C15: a call on a degenerate unit writes no table, leaves the polygon
\* layer alone, logs a warning and returns.
C15_DegenerateSkipped ==
    [][ (run'.n = run.n + 1 /\ Degenerate) =>
            /\ htable' = htable
            /\ catchments' = catchments
            /\ run'.outcome = "skipped"
            /\ \E w \in {"ALERT no valid roughness", "ALERT hydrotable is empty",
                          "ALERT no valid hydroid roughness"} : w \in run'.log
      ]_vars

\* the cell of segment h in a per-segment column, <<FALSE, .>> when null
CellOf(col, h) == IF h \in DOMAIN col THEN <<TRUE, col[h]>> ELSE <<FALSE, 0>>

\* the row of segment h in the table t: value, source and attribution
Persisted(t, h) ==
    <<CellOf(t.adjust_ManningN, h), CellOf(t.obs_source, h),
      CellOf(t.submitter, h), CellOf(t.last_updated, h)>>

\* segment h of the table before the call has a value that may be retained
Durable(h) ==
    /\ h \in DOMAIN htable.adjust_ManningN
    /\ h \in DOMAIN htable.obs_source
    /\ htable.obs_source[h] = "usgs_rating"

\* C16: in a written table a segment for which the run produced a value
\* has that value and the source tag of the run; a segment for which it
\* produced none has its previous row when merge_prev_adj is set and the
\* previous obs_source is usgs_rating, and no value otherwise.
C16_PreviousFillsNulls ==
    [][ (run'.n = run.n + 1 /\ run'.outcome = "written") =>
            \A h \in HydroIDs :
                IF h \in DOMAIN run'.merged
                THEN /\ CellOf(htable'.adjust_ManningN, h) = <<TRUE, run'.merged[h]>>
                     /\ CellOf(htable'.obs_source, h) = <<TRUE, run'.source_tag>>
                ELSE IF run'.merge_prev_adj /\ Durable(h)
                THEN Persisted(htable', h) = Persisted(htable, h)
                ELSE h \notin DOMAIN htable'.adjust_ManningN
      ]_vars

\* a segment kept its usgs_rating value through a point_obs run that gave
\* it none, next to a segment that had a previous value and took the new one
C16_Witness ==
    /\ Written
    /\ run.source_tag = "point_obs"
    /\ \E h \in DOMAIN run.prev_adj :
          /\ h \notin DOMAIN run.merged
          /\ htable.adjust_ManningN[h] = run.prev_adj[h]
          /\ htable.obs_source[h] = "usgs_rating"
    /\ \E g \in DOMAIN run.prev_adj :
          /\ g \in DOMAIN run.merged
          /\ run.merged[g] # run.prev_adj[g]


(***************************************************************************)
(* C17: in the parallel worker pool an error raised while processing one   *)
(* unit aborts only that unit: when the run is over every other unit has   *)
(* completed, and the log texts of the completed units are written to the  *)
(* run log.                                                                *)
(***************************************************************************)
RunOver == mp.pc \in {"exception", "closed"}

C17_UnitIsolation ==
    RunOver =>
        \A u \in Units \ mp.raises :
            /\ mp.unit[u] = "completed"
            /\ LogText(u) \in Range(mp.log_file)


(***************************************************************************)
(* C18: when the walk of branch_network visits a segment s whose successor *)
(* t is a kept row that is not yet visited, it stops and appends t to the  *)
(* branch heads exactly when order(t) > order(s) and more than one kept    *)
(* row names t as its NextDownID; in every other case t is the next        *)
(* segment visited, in the branch of s.  Hence two consecutive segments of *)
(* a branch never cross a confluence at which the order increases.         *)
(***************************************************************************)
Visits(s) == s \notin bn.visited /\ s \in bn'.visited

Referrers(t) == {g \in NonLake(segs) : segs[g].NextDownID = t}

OrderIncreasingConfluence(s, t) ==
    segs[t].order_ > segs[s].order_ /\ Cardinality(Referrers(t)) > 1

Consecutive(s, t) ==
    /\ s \in DOMAIN bn.branch_id
    /\ t \in DOMAIN bn.branch_id
    /\ bn.branch_id[t] = bn.branch_id[s]
    /\ bn.route_count[t] = bn.route_count[s] + 1

C18_SplitRule ==
    /\ [][\A s \in HydroIDs :
             LET t == segs[s].NextDownID
             IN  (Visits(s) /\ t \in NonLake(segs) /\ t \notin bn'.visited) =>
                     IF OrderIncreasingConfluence(s, t)
                     THEN /\ bn'.Q = <<>>
                          /\ bn'.branch_heads = Append(bn.branch_heads, t)
                     ELSE /\ bn'.Q = <<t>>
                          /\ bn'.branch_heads = bn.branch_heads
                          /\ bn'.branch_count = bn.branch_count]_vars
    /\ [](\A s, t \in HydroIDs :
             Consecutive(s, t) =>
                 /\ t = segs[s].NextDownID
                 /\ ~ OrderIncreasingConfluence(s, t))

C18_Witness ==
    /\ pc = "returned"
    /\ \E s, u, t \in HydroIDs :
          /\ s # u
          /\ segs[s].NextDownID = t
          /\ segs[u].NextDownID = t
          /\ OrderIncreasingConfluence(s, t)
          /\ bn.branch_id[t] # bn.branch_id[s]
          /\ Consecutive(u, t)


(***************************************************************************)
(* C19: in the frame branch_network returns, the NextDownID of the last    *)
(* segment of every branch (the one with the highest route_count) either   *)
(* names no kept row of the table or names a confluence whose stream       *)
(* order is strictly greater than the order of the last segment.           *)
(***************************************************************************)
LastOf(k) ==
    CHOOSE h \in Members(k) :
        \A g \in Members(k) : bn.route_count[g] <= bn.route_count[h]

EndsAtSink(h) == segs[h].NextDownID \notin NonLake(segs)

EndsAtSplit(h) == OrderIncreasingConfluence(h, segs[h].NextDownID)

C19_EndsAtSinkOrConfluence ==
    pc = "returned" =>
        \A k \in BranchIds : EndsAtSink(LastOf(k)) \/ EndsAtSplit(LastOf(k))

\* C19 as the code has it: a branch also ends where its successor was
\* visited before, that is in a branch with a lower number or, on a cycle,
\* earlier in the same branch (line 314).
EndsAtVisited(h) ==
    LET t == segs[h].NextDownID
    IN  /\ t \in DOMAIN bn.branch_id
        /\ \/ bn.branch_id[t] < bn.branch_id[h]
           \/ /\ bn.branch_id[t] = bn.branch_id[h]
              /\ bn.route_count[t] <= bn.route_count[h]

C19_EndsAtSinkSplitOrVisited ==
    pc = "returned" =>
        \A k \in BranchIds :
            \/ EndsAtSink(LastOf(k))
            \/ EndsAtSplit(LastOf(k))
            \/ EndsAtVisited(LastOf(k))

\* a branch ends at a segment of an earlier branch that its last segment
\* drains to without an increase of the order
C19_Witness ==
    /\ pc = "returned"
    /\ \E j \in BranchIds :
          /\ ~ EndsAtSink(LastOf(j))
          /\ ~ EndsAtSplit(LastOf(j))
          /\ EndsAtVisited(LastOf(j))
          /\ bn.branch_id[segs[LastOf(j)].NextDownID] < j
          /\ Cardinality(Referrers(segs[LastOf(j)].NextDownID)) > 1


(***************************************************************************)
(* C20: every group_ManningN that group_manningn_calc emits is the         *)
(* arithmetic mean of the direct values of the most recent maximal run of  *)
(* consecutive calibrated segments of the same branch, the current segment *)
(* included when it is calibrated; the counters start afresh in every      *)
(* branch: after the first row of a branch the count, the sum and the      *)
(* distance the loop carries are those of that row alone.  A value that    *)
(* was emitted is never changed by a later row.                            *)
(***************************************************************************)
\* the run of calibrated rows a value emitted at row i is taken from
RunAt(i) ==
    IF LastCalibrated(i) = 0 THEN {} ELSE RunRows(LastCalibrated(i))

RunMean(i) == MeanOver(df.hydroid_ManningN, {df.rows[m] : m \in RunAt(i)})

\* the loop of group_manningn_calc processes row i of the frame
ProcessesRow(i) == pc = "group" /\ gm.i = i /\ gm'.i = i + 1

HeadOfBranch(i) == i = 1 \/ ~ SameBranch(i - 1, i)

C20_MeanOfRun ==
    [][\A i \in 1..Len(df.rows) :
          ProcessesRow(i) =>
              /\ \A h \in DOMAIN gm.out :
                    h \in DOMAIN gm'.out /\ gm'.out[h] = gm.out[h]
              /\ df.rows[i] \in DOMAIN gm'.out =>
                    /\ RunAt(i) # {}
                    /\ gm'.out[df.rows[i]] = RunMean(i)
              /\ HeadOfBranch(i) =>
                    IF Calibrated(i)
                    THEN /\ gm'.hyid_count = 1
                         /\ gm'.hyid_accum_count = 1
                         /\ gm'.run_accum_mann = df.hydroid_ManningN[df.rows[i]]
                         /\ gm'.dist_accum = 0
                    ELSE /\ gm'.hyid_count = 0
                         /\ gm'.hyid_accum_count = 0
                         /\ gm'.run_accum_mann = RZero
                         /\ gm'.dist_accum = segs[df.rows[i]].LENGTHKM]_vars

\* a branch of two calibrated segments with different values, then the
\* first row of the next branch: not calibrated, short of the threshold,
\* and without a group value
C20_Witness ==
    /\ pc = "grouped"
    /\ \E i \in Processed :
          /\ i + 2 \in Processed
          /\ Calibrated(i) /\ Calibrated(i + 1) /\ SameBranch(i, i + 1)
          /\ df.hydroid_ManningN[df.rows[i]] # df.hydroid_ManningN[df.rows[i + 1]]
          /\ Emitted(i + 1)
          /\ gm.out[df.rows[i + 1]] # df.hydroid_ManningN[df.rows[i + 1]]
          /\ df.rows[i + 2] \in DOMAIN df.branch_id
          /\ ~ SameBranch(i + 1, i + 2)
          /\ ~ Calibrated(i + 2)
          /\ AccumDist(i + 2) < DOWNSTREAM_THRESHOLD
          /\ ~ Emitted(i + 2)


(***************************************************************************)
(* C21: along a branch, once the accumulated distance of an uncalibrated   *)
(* segment has reached the threshold, no later uncalibrated segment of the *)
(* branch gets a group_ManningN until a calibrated segment is met; after   *)
(* that calibrated segment a group value comes only from the new run of    *)
(* calibrated segments.                                                    *)
(***************************************************************************)
\* row j is an uncalibrated row at or above the threshold, and no row
\* from j to i is calibrated
BeyondThreshold(j, i) ==
    /\ j <= i
    /\ SameBranch(j, i)
    /\ \A m \in j..i : ~ Calibrated(m)
    /\ AccumDist(j) >= DOWNSTREAM_THRESHOLD

C21_AbandonedUntilCalibrated ==
    \A i \in Processed :
        /\ (\E j \in 1..i : BeyondThreshold(j, i)) => ~ Emitted(i)
        /\ \A j \in 1..i :
              (/\ Emitted(i)
               /\ BeyondThreshold(j, j)
               /\ SameBranch(j, i)
               /\ j < LastCalibrated(i)) =>
                  /\ \A m \in RunAt(i) : m > j
                  /\ gm.out[df.rows[i]] = RunMean(i)

\* two calibrated rows, an uncalibrated row that reaches the threshold, a
\* later uncalibrated row without a value, then a calibrated row whose
\* group value is its own
C21_Witness ==
    /\ pc = "grouped"
    /\ \E i \in Processed :
          /\ i + 4 \in Processed
          /\ Calibrated(i) /\ Calibrated(i + 1)
          /\ ~ Calibrated(i + 2) /\ AccumDist(i + 2) >= DOWNSTREAM_THRESHOLD
          /\ ~ Calibrated(i + 3) /\ ~ Emitted(i + 3)
          /\ segs[df.rows[i + 3]].LENGTHKM < DOWNSTREAM_THRESHOLD
          /\ Calibrated(i + 4) /\ Emitted(i + 4)
          /\ gm.out[df.rows[i + 4]] = df.hydroid_ManningN[df.rows[i + 4]]
          /\ gm.out[df.rows[i + 4]] # gm.out[df.rows[i + 1]]


(***************************************************************************)
(* C22: the accumulated distance group_manningn_calc compares with the     *)
(* threshold at an uncalibrated segment is the sum of LENGTHKM of the      *)
(* uncalibrated segments since the last calibrated segment of the branch   *)
(* (or since the head of the branch), the segment's own length included    *)
(* and the calibrated segment's length excluded; a calibrated segment      *)
(* resets it to zero.                                                      *)
(***************************************************************************)
C22_DistanceSinceCalibrated ==
    /\ (pc = "group" /\ gm.i > 1) =>
          gm.dist_accum = IF Calibrated(gm.i - 1) THEN 0 ELSE AccumDist(gm.i - 1)
    /\ \A i \in Processed :
          ~ Calibrated(i) =>
              (Emitted(i) <=> /\ AccumDist(i) < DOWNSTREAM_THRESHOLD
                              /\ UpstreamRun(i) > 1)

\* a calibrated row as long as the threshold, then two uncalibrated rows: the
\* distance after the second is the sum of the lengths of these two
C22_Witness ==
    /\ pc = "group"
    /\ gm.i > 3
    /\ Calibrated(gm.i - 3)
    /\ segs[df.rows[gm.i - 3]].LENGTHKM >= DOWNSTREAM_THRESHOLD
    /\ ~ Calibrated(gm.i - 2)
    /\ ~ Calibrated(gm.i - 1)
    /\ gm.dist_accum = segs[df.rows[gm.i - 2]].LENGTHKM
                          + segs[df.rows[gm.i - 1]].LENGTHKM


(***************************************************************************)
(* C23: when the NextDownID graph of the non-lake segments has no cycle,   *)
(* branch_network assigns a branch_id and a route_count to every non-lake  *)
(* segment, and every segment with route_count 0 is either a segment no    *)
(* non-lake segment points to or a confluence that an upstream branch      *)
(* enqueued.                                                               *)
(***************************************************************************)
\* the segment reached from h after n steps along NextDownID, staying at
\* the first id that is no non-lake segment
RECURSIVE Follow(_, _)
Follow(h, n) ==
    IF n = 0 \/ h \notin NonLake(segs) THEN h
    ELSE Follow(segs[h].NextDownID, n - 1)

OnCycle(h) ==
    \E n \in 1..Cardinality(NonLake(segs)) : Follow(segs[h].NextDownID, n - 1) = h

Acyclic == \A h \in NonLake(segs) : ~ OnCycle(h)

EnqueuedByUpstream(h) ==
    \E s \in NonLake(segs) :
        /\ segs[s].NextDownID = h
        /\ OrderIncreasingConfluence(s, h)
        /\ s \in DOMAIN bn.branch_id
        /\ bn.branch_id[s] < bn.branch_id[h]

C23_AcyclicCovered ==
    (BNLoopDone(bn) /\ Acyclic) =>
        /\ DOMAIN bn.branch_id = NonLake(segs)
        /\ DOMAIN bn.route_count = NonLake(segs)
        /\ \A h \in DOMAIN bn.route_count :
              bn.route_count[h] = 0 =>
                  StartCatch(segs, h) \/ EnqueuedByUpstream(h)

\* two segments of order 1 drain to a third of a higher order: three
\* branches, the confluence is the head of the last one
C23_Witness ==
    /\ pc = "returned"
    /\ Acyclic
    /\ NonLake(segs) = HydroIDs
    /\ \E h \in HydroIDs :
          /\ bn.route_count[h] = 0
          /\ ~ StartCatch(segs, h)
          /\ EnqueuedByUpstream(h)
          /\ Cardinality(Referrers(h)) > 1


(***************************************************************************)
(* C24: in run_prep every write to the run log happens after the log file  *)
(* has been opened: when a branch directory lacks its SRC crosswalked      *)
(* file, that branch is skipped with a warning written to the log, and the *)
(* remaining branches are still queued and processed.                      *)
(***************************************************************************)
Warned(u) == [unit |-> u, text |-> "WARNING"] \in Range(mp.log_file)

C24_LogOpenBeforeWrite ==
    /\ mp.pc # "UnboundLocalError"
    /\ mp.pc \in {"exception", "closed"} =>
          /\ \A u \in mp.missing : mp.unit[u] = "skipped" /\ Warned(u)
          /\ \A u \in Units \ mp.missing :
                mp.unit[u] \in {"completed", "raised"}

=============================================================================
